---- MODULE Spec2Model ----
(***************************************************************************)
(* Model of app.py: the subscription workflow (POST /subscribe) backed by  *)
(* the subscribers workbook and the audit log, and the dynamic page        *)
(* resolver (GET /<slug>).                                                 *)
(*                                                                         *)
(* Strings the code inspects character by character (emails, slugs,        *)
(* template names) are sequences of one-character strings.                 *)
(***************************************************************************)
EXTENDS Integers, Sequences, FiniteSets, TLC

\* Number of /subscribe requests in one run.
NumReq == 2

Requests == 1..NumReq

\* Python's None.
None == "None"

(***************************************************************************)
(* Characters and the str methods the handlers use.                        *)
(***************************************************************************)
LowerLetters ==
    <<"a","b","c","d","e","f","g","h","i","j","k","l","m",
      "n","o","p","q","r","s","t","u","v","w","x","y","z">>

UpperLetters ==
    <<"A","B","C","D","E","F","G","H","I","J","K","L","M",
      "N","O","P","Q","R","S","T","U","V","W","X","Y","Z">>

Digits == {"0","1","2","3","4","5","6","7","8","9"}

Range(s) == {s[i] : i \in DOMAIN s}

Lowers == Range(LowerLetters)

Uppers == Range(UpperLetters)

Whitespace == {" ", "\t", "\n", "\r"}

\* str.lower() on one character.
LowerChar(c) ==
    IF c \in Uppers
    THEN LowerLetters[CHOOSE i \in DOMAIN UpperLetters : UpperLetters[i] = c]
    ELSE c

\* str.lower()
StrLower(s) == [i \in DOMAIN s |-> LowerChar(s[i])]

\* str.strip(): drops leading and trailing whitespace.
StrStrip(s) ==
    LET keep == {i \in DOMAIN s : s[i] \notin Whitespace}
    IN  IF keep = {} THEN <<>>
        ELSE LET lo == CHOOSE i \in keep : \A j \in keep : i <= j
                 hi == CHOOSE i \in keep : \A j \in keep : j <= i
             IN  SubSeq(s, lo, hi)

\* What a pattern ending in $ is matched against: re's $ (no MULTILINE)
\* matches at the end of the string and also just before a newline that is
\* the last character.
DollarEnds(s) ==
    {Len(s)} \cup (IF Len(s) > 0 /\ s[Len(s)] = "\n" THEN {Len(s) - 1} ELSE {})

(***************************************************************************)
(* 8. Audit logging                                                        *)
(***************************************************************************)
\* audit(event, email, ip): one line "event | email | IP:ip" of audit.log.
AuditLine(event, email, ip) == [event |-> event, email |-> email, ip |-> ip]

(***************************************************************************)
(* 9. Email validation                                                     *)
(***************************************************************************)
EmailLocalClass == Lowers \cup Uppers \cup Digits \cup {".", "_", "%", "+", "-"}

EmailDomainClass == Lowers \cup Uppers \cup Digits \cup {".", "-"}

EmailTldClass == Lowers \cup Uppers

\* EMAIL_REGEX.match(s): ^[a-zA-Z0-9._%+-]+@[a-zA-Z0-9.-]+\.[a-zA-Z]{2,}$
EMAIL_REGEX(s) ==
    \E e \in DollarEnds(s) :
      \E at \in 1..e, dot \in 1..e :
        /\ s[at] = "@"
        /\ at > 1
        /\ \A k \in 1..(at - 1) : s[k] \in EmailLocalClass
        /\ dot > at + 1
        /\ s[dot] = "."
        /\ \A k \in (at + 1)..(dot - 1) : s[k] \in EmailDomainClass
        /\ e - dot >= 2
        /\ \A k \in (dot + 1)..e : s[k] \in EmailTldClass

\* email.split("@")[1] for an address EMAIL_REGEX accepted (exactly one "@").
DomainOf(s) ==
    LET at == CHOOSE i \in DOMAIN s : s[i] = "@"
    IN  SubSeq(s, at + 1, Len(s))

\* The domains that publish an MX record.
MxDomains == { <<"b", ".", "c", "o">>, <<"d", ".", "i", "n">> }

\* dns.resolver.resolve(domain, "MX"): the answers the call can give.  A
\* domain without MX records always raises; one with MX records can still
\* raise (timeout, network error).
MxAnswers(domain) == IF domain \in MxDomains THEN {TRUE, FALSE} ELSE {FALSE}

\* Variant: the syntax check is skipped.
is_valid_email_mxOnly(email, mx) == mx

\* is_valid_email(email) when the resolver answers mx (TRUE: records
\* returned, FALSE: an exception).  The resolver is only consulted when the
\* syntax check passed.
is_valid_email(email, mx) == EMAIL_REGEX(email) /\ mx

(***************************************************************************)
(* 10. Subscriber storage                                                  *)
(***************************************************************************)
SheetName == "subscribers"

HeaderRow == <<"email", "consent_given", "subscribed_at_utc", "ip_hash">>

\* What is at SUBSCRIBERS_FILE when the process starts: nothing, or a workbook.
NoFile == [exists |-> FALSE]

OnDisk(book) == [exists |-> TRUE, book |-> book]

\* A workbook is a function from its sheet names to the rows of each sheet.
NewWorkbook == (SheetName :> <<HeaderRow>>)

\* ensure_excel_file(): creates the workbook only when the file is absent.
ensure_excel_file(disk) == IF ~disk.exists THEN NewWorkbook ELSE disk.book

\* sha256 hex digests of the client addresses of the model.
hash_ip(ip) ==
    CASE ip = "203.0.113.7" ->
           "fec52565aa0cf18f57d7cf5b3ac728503b8992d2d6f7d46da1d1201090902b02"
      [] ip = "unknown" ->
           "b23a6a8439c0dde5515893e7c90c1e3233b8616e634470f20dc4928bcf3609bc"

\* An empty cell (falsy, like the empty string).
EmptyCell == <<>>

\* First data row scanned by ws.iter_rows(min_row=2, ...).
MinRow == 2

\* rows of the sheet from min_row on
DataRows(ws) == IF Len(ws) < MinRow THEN <<>> ELSE SubSeq(ws, MinRow, Len(ws))

\* Variant: the scan stops one row early.
is_email_already_subscribed_shortScan(ws, email) ==
    \E i \in 1..(Len(DataRows(ws)) - 1) :
        LET row == DataRows(ws)[i]
        IN  /\ row[1] # EmptyCell
            /\ StrLower(row[1]) = StrLower(email)

\* The scan of is_email_already_subscribed over an opened sheet.
is_email_already_subscribed(ws, email) ==
    \E i \in DOMAIN DataRows(ws) :
        LET row == DataRows(ws)[i]
        IN  /\ row[1] # EmptyCell
            /\ StrLower(row[1]) = StrLower(email)

(***************************************************************************)
(* 12. POST /subscribe                                                     *)
(***************************************************************************)
S_a_b_co == <<"a", "@", "b", ".", "c", "o">>

S_A_B_co_padded == <<" ", "A", "@", "B", ".", "c", "o", "\n">>

S_c_d_in == <<"c", "@", "d", ".", "i", "n">>

S_not_an_email == <<"n", "o", "t", "-", "a", "n", "-", "e", "m", "a", "i", "l">>

\* request.form.get("email", ""): the values submitted (<<>>: field absent).
FormEmails == {S_a_b_co, S_A_B_co_padded, S_c_d_in, S_not_an_email, <<>>}

\* request.form.get("consent"): None when the field is absent.
FormConsents == {None, "", "on"}

\* request.remote_addr of the requests (None, which subscribe turns into
\* "unknown", is left out: it is no address).
RemoteAddrs == {"203.0.113.7"}

\* Variant: only an absent field counts as no consent.
Truthy_absentOnly(c) == c # None

\* Python truthiness of the consent field.
Truthy(c) == c # None /\ c # ""

\* Workbooks that can be on disk when the process starts.
PreExisting ==
    { NoFile,
      OnDisk(SheetName :> <<HeaderRow, <<S_c_d_in, "yes", 0, hash_ip("unknown")>> >>),
      OnDisk("Sheet1" :> <<HeaderRow>>) }

VARIABLES
    file,        \* the workbook at SUBSCRIBERS_FILE
    auditLog,    \* the lines of audit.log
    now,         \* datetime.utcnow()
    pc,          \* where each request is in subscribe()
    form,        \* the email field of each request, as submitted
    email,       \* subscribe's local email (normalised)
    consent,     \* subscribe's local consent
    ip,          \* subscribe's local ip
    wb,          \* subscribe's local workbook (section e)
    outcome,     \* how each request ended
    hist,        \* per request: what it called and emitted
    templates,   \* the files of app.template_folder
    response     \* the last answer of render_dynamic_page

vars == <<file, auditLog, now, pc, form, email, consent, ip, wb, outcome, hist,
          templates, response>>

\* The rows of the subscribers sheet below the header (<<>> without sheet).
Subscribers(book) ==
    IF SheetName \in DOMAIN book THEN DataRows(book[SheetName]) ELSE <<>>

\* What a request has done so far:
\*   validator     calls of is_valid_email
\*   accepted      is_valid_email returned True
\*   dnsError      the MX lookup raised
\*   reads, writes load_workbook and wb.save calls
\*   events        the audit events it emitted
\*   row           the row it appended
\*   prior         the form emails of the requests that had ended in Stored
\*                 when it arrived
\*   sheetMissing  the sheet was missing when it reached the duplicate check
NoHist ==
    [validator |-> 0, accepted |-> FALSE, dnsError |-> FALSE,
     reads |-> 0, writes |-> 0, events |-> <<>>, row |-> <<>>,
     prior |-> {}, sheetMissing |-> FALSE]

\* Form emails of the requests that have ended in Stored.
StoredForms == {form[q] : q \in {r \in Requests : outcome[r] = "Stored"}}

\* a, b: read the form, enforce consent.
Submit(p) ==
    /\ pc[p] = "idle"
    /\ \E e \in FormEmails, c \in FormConsents, a \in RemoteAddrs :
         /\ form' = [form EXCEPT ![p] = e]
         /\ email' = [email EXCEPT ![p] = StrLower(StrStrip(e))]
         /\ consent' = [consent EXCEPT ![p] = c]
         /\ ip' = [ip EXCEPT ![p] = IF a = None THEN "unknown" ELSE a]
         /\ IF ~Truthy(c)
            THEN /\ auditLog' = Append(auditLog,
                                  AuditLine("CONSENT_MISSING", email'[p], ip'[p]))
                 /\ hist' = [hist EXCEPT ![p].events = Append(@, "CONSENT_MISSING"),
                                         ![p].prior = StoredForms]
                 /\ outcome' = [outcome EXCEPT ![p] = "ConsentMissing"]
                 /\ pc' = [pc EXCEPT ![p] = "done"]
            ELSE /\ hist' = [hist EXCEPT ![p].prior = StoredForms]
                 /\ pc' = [pc EXCEPT ![p] = "validate"]
                 /\ UNCHANGED <<auditLog, outcome>>
    /\ UNCHANGED <<file, now, wb, templates, response>>

\* c: validate the email (syntax, then MX lookup).
ValidateEmail(p) ==
    /\ pc[p] = "validate"
    /\ \E mx \in (IF EMAIL_REGEX(email[p])
                  THEN MxAnswers(DomainOf(email[p])) ELSE {TRUE}) :
         IF ~is_valid_email(email[p], mx)
         THEN /\ auditLog' = Append(auditLog,
                               AuditLine("INVALID_EMAIL", email[p], ip[p]))
              /\ hist' = [hist EXCEPT ![p].validator = @ + 1,
                                      ![p].dnsError = ~mx,
                                      ![p].events = Append(@, "INVALID_EMAIL")]
              /\ outcome' = [outcome EXCEPT ![p] = "InvalidEmail"]
              /\ pc' = [pc EXCEPT ![p] = "done"]
         ELSE /\ hist' = [hist EXCEPT ![p].validator = @ + 1,
                                      ![p].accepted = TRUE]
              /\ pc' = [pc EXCEPT ![p] = "dupcheck"]
              /\ UNCHANGED <<auditLog, outcome>>
    /\ UNCHANGED <<file, now, form, email, consent, ip, wb, templates, response>>

\* d: is_email_already_subscribed(email): load the workbook, open the
\* sheet (KeyError when it is not there: the request fails), scan it.
DupCheck(p) ==
    /\ pc[p] = "dupcheck"
    /\ IF SheetName \notin DOMAIN file
       THEN /\ hist' = [hist EXCEPT ![p].reads = @ + 1,
                                    ![p].sheetMissing = TRUE]
            /\ outcome' = [outcome EXCEPT ![p] = "Error"]
            /\ pc' = [pc EXCEPT ![p] = "done"]
            /\ UNCHANGED auditLog
       ELSE IF is_email_already_subscribed(file[SheetName], email[p])
       THEN /\ auditLog' = Append(auditLog,
                             AuditLine("DUPLICATE_SUBSCRIPTION", email[p], ip[p]))
            /\ hist' = [hist EXCEPT ![p].reads = @ + 1,
                                    ![p].events = Append(@, "DUPLICATE_SUBSCRIPTION")]
            /\ outcome' = [outcome EXCEPT ![p] = "Duplicate"]
            /\ pc' = [pc EXCEPT ![p] = "done"]
       ELSE /\ hist' = [hist EXCEPT ![p].reads = @ + 1]
            /\ pc' = [pc EXCEPT ![p] = "load"]
            /\ UNCHANGED <<auditLog, outcome>>
    /\ UNCHANGED <<file, now, form, email, consent, ip, wb, templates, response>>

\* The subscriber row of section g.
SubscriberRow(e, t, a) == <<e, "yes", t, hash_ip(a)>>

\* e, f, g: load the workbook, make sure the sheet exists, append the row
\* to the in-memory copy.
LoadAppend(p) ==
    /\ pc[p] = "load"
    /\ LET loaded == file
           healed == IF SheetName \notin DOMAIN loaded
                     THEN loaded @@ (SheetName :> <<HeaderRow>>)
                     ELSE loaded
           row == SubscriberRow(email[p], now, ip[p])
       IN  /\ wb' = [wb EXCEPT ![p] =
                        [healed EXCEPT ![SheetName] = Append(@, row)]]
           /\ hist' = [hist EXCEPT ![p].reads = @ + 1, ![p].row = row]
    /\ now' = now + 1
    /\ pc' = [pc EXCEPT ![p] = "save"]
    /\ UNCHANGED <<file, auditLog, form, email, consent, ip, outcome,
                   templates, response>>

\* wb.save(SUBSCRIBERS_FILE): the whole file is rewritten.
Save(p) ==
    /\ pc[p] = "save"
    /\ file' = wb[p]
    /\ hist' = [hist EXCEPT ![p].writes = @ + 1]
    /\ pc' = [pc EXCEPT ![p] = "audit"]
    /\ UNCHANGED <<auditLog, now, form, email, consent, ip, wb, outcome,
                   templates, response>>

\* h, i: audit and redirect.
AuditSubscribed(p) ==
    /\ pc[p] = "audit"
    /\ auditLog' = Append(auditLog, AuditLine("SUBSCRIBED", email[p], ip[p]))
    /\ hist' = [hist EXCEPT ![p].events = Append(@, "SUBSCRIBED")]
    /\ outcome' = [outcome EXCEPT ![p] = "Stored"]
    /\ pc' = [pc EXCEPT ![p] = "done"]
    /\ UNCHANGED <<file, now, form, email, consent, ip, wb, templates, response>>

\* No workbook loaded yet.
NoWorkbook == <<>>

\* No page requested yet.
NoResponse == [slug |-> <<>>, status |-> 0, template |-> <<>>, existsChecked |-> FALSE]

Init ==
    /\ file \in {ensure_excel_file(d) : d \in PreExisting}
    /\ auditLog = <<>>
    /\ now = 1
    /\ pc = [p \in Requests |-> "idle"]
    /\ form = [p \in Requests |-> <<>>]
    /\ email = [p \in Requests |-> <<>>]
    /\ consent = [p \in Requests |-> None]
    /\ ip = [p \in Requests |-> "unknown"]
    /\ wb = [p \in Requests |-> NoWorkbook]
    /\ outcome = [p \in Requests |-> "None"]
    /\ hist = [p \in Requests |-> NoHist]
    /\ templates = {}
    /\ response = NoResponse

Next ==
    \E p \in Requests :
        \/ Submit(p)
        \/ ValidateEmail(p)
        \/ DupCheck(p)
        \/ LoadAppend(p)
        \/ Save(p)
        \/ AuditSubscribed(p)

\* Requests handled concurrently (threads or worker processes).
Spec == Init /\ [][Next]_vars

\* One request at a time: a request starts only when no other is running.
SeqSubmit(p) ==
    /\ \A q \in Requests : pc[q] \in {"idle", "done"}
    /\ Submit(p)

SeqNext ==
    \E p \in Requests :
        \/ SeqSubmit(p)
        \/ ValidateEmail(p)
        \/ DupCheck(p)
        \/ LoadAppend(p)
        \/ Save(p)
        \/ AuditSubscribed(p)

SeqSpec == Init /\ [][SeqNext]_vars

(***************************************************************************)
(* 13. Dynamic content routing                                             *)
(***************************************************************************)
S_about == <<"a", "b", "o", "u", "t">>

S_join_us == <<"j", "o", "i", "n", "-", "u", "s">>

S_privacy_policy == <<"p", "r", "i", "v", "a", "c", "y", "-", "p", "o", "l", "i", "c", "y">>

S_legal_terms == <<"l", "e", "g", "a", "l", "-", "t", "e", "r", "m", "s">>

S_subscribe == <<"s", "u", "b", "s", "c", "r", "i", "b", "e">>

S_health == <<"h", "e", "a", "l", "t", "h">>

S_client_error == <<"c", "l", "i", "e", "n", "t", "-", "e", "r", "r", "o", "r">>

S_static == <<"s", "t", "a", "t", "i", "c">>

S_x1 == <<"x", "1">>

S_About == <<"A", "b", "o", "u", "t">>

S_a_dot_b == <<"a", ".", "b">>

S_dotdot_slash_x == <<".", ".", "/", "x">>

S_a_pct_2f == <<"a", "%", "2", "f">>

S_a_space_b == <<"a", " ", "b">>

S_about_newline == <<"a", "b", "o", "u", "t", "\n">>

S_dot_html == <<".", "h", "t", "m", "l">>

S_privacy_policy_html == <<"p", "r", "i", "v", "a", "c", "y", "-", "p", "o", "l", "i", "c", "y", ".", "h", "t", "m", "l">>

S_legal_terms_html == <<"l", "e", "g", "a", "l", "-", "t", "e", "r", "m", "s", ".", "h", "t", "m", "l">>

SlugClass == Lowers \cup Digits \cup {"-"}

\* SAFE_SLUG.match(s): ^[a-z0-9\-]+$
SAFE_SLUG(s) ==
    \E e \in DollarEnds(s) :
        /\ e >= 1
        /\ \A k \in 1..e : s[k] \in SlugClass

RESERVED_ROUTES == {S_subscribe, S_health, S_client_error, S_static}

\* The dict PAGE_MAP, as a function on its keys.
PAGE_MAP ==
    [k \in {S_privacy_policy, S_legal_terms} |->
        IF k = S_privacy_policy THEN S_privacy_policy_html ELSE S_legal_terms_html]

\* f"{slug}.html"
Html(slug) == slug \o S_dot_html

\* PAGE_MAP.get(slug, f"{slug}.html")
TemplateName(slug) == IF slug \in DOMAIN PAGE_MAP THEN PAGE_MAP[slug] ELSE Html(slug)

\* The value of render_dynamic_page(slug) over the template folder tf:
\* the status, the template name it resolved (<<>> when it never got
\* there), and whether os.path.exists was called.
render_dynamic_page(slug, tf) ==
    IF slug \in RESERVED_ROUTES
    THEN [slug |-> slug, status |-> 404, template |-> <<>>, existsChecked |-> FALSE]
    ELSE IF ~SAFE_SLUG(slug)
    THEN [slug |-> slug, status |-> 404, template |-> <<>>, existsChecked |-> FALSE]
    ELSE IF TemplateName(slug) \notin tf
    THEN [slug |-> slug, status |-> 404, template |-> TemplateName(slug),
          existsChecked |-> TRUE]
    ELSE [slug |-> slug, status |-> 200, template |-> TemplateName(slug),
          existsChecked |-> TRUE]

\* The slugs requested.
Slugs ==
    {S_about, S_join_us, S_privacy_policy, S_legal_terms, S_subscribe, S_health,
     S_client_error, S_static, S_x1, S_About, S_a_dot_b, S_dotdot_slash_x,
     S_a_pct_2f, S_a_space_b, S_about_newline, <<>>}

\* Files that may be in the template folder.
TemplateFiles ==
    {Html(S_about), Html(S_About), Html(S_about_newline), Html(S_a_dot_b),
     Html(S_health), Html(S_privacy_policy), Html(S_legal_terms)}

\* GET /<slug>
RenderDynamicPage(slug) ==
    /\ response' = render_dynamic_page(slug, templates)
    /\ UNCHANGED <<file, auditLog, now, pc, form, email, consent, ip, wb, outcome,
                   hist, templates>>

PageInit ==
    /\ file = ensure_excel_file(NoFile)
    /\ auditLog = <<>>
    /\ now = 1
    /\ pc = [p \in Requests |-> "idle"]
    /\ form = [p \in Requests |-> <<>>]
    /\ email = [p \in Requests |-> <<>>]
    /\ consent = [p \in Requests |-> None]
    /\ ip = [p \in Requests |-> "unknown"]
    /\ wb = [p \in Requests |-> NoWorkbook]
    /\ outcome = [p \in Requests |-> "None"]
    /\ hist = [p \in Requests |-> NoHist]
    /\ templates \in SUBSET TemplateFiles
    /\ response = NoResponse

PageNext == \E slug \in Slugs : RenderDynamicPage(slug)

PageSpec == PageInit /\ [][PageNext]_vars

(***************************************************************************)
(* Properties                                                              *)
(***************************************************************************)
Done(p) == pc[p] = "done"

\* Two form values are the same address up to letter case and surrounding
\* whitespace.
SameAddress(x, y) == StrLower(StrStrip(x)) = StrLower(StrStrip(y))

\* Emails of the rows below the header of the subscribers sheet.
SubscriberEmails(book) == {Subscribers(book)[i][1] : i \in DOMAIN Subscribers(book)}

\* Emails subscribed in some workbook the process can start with.
InitiallySubscribed ==
    UNION {SubscriberEmails(d.book) : d \in {x \in PreExisting : x.exists}}

\* Client addresses as received.
RawAddresses == RemoteAddrs \ {None}

\* C1: two submits with consent and the same valid, not yet subscribed
\* email: whatever the interleaving, one ends in Stored and the other in
\* Duplicate, never both in Stored.
C1_OneStoredOneDuplicate ==
    \A p \in Requests, q \in Requests :
        ( /\ p # q
          /\ Done(p) /\ Done(q)
          /\ hist[p].accepted /\ hist[q].accepted
          /\ ~hist[p].sheetMissing /\ ~hist[q].sheetMissing
          /\ email[p] = email[q]
          /\ email[p] \notin InitiallySubscribed )
        => {outcome[p], outcome[q]} = {"Stored", "Duplicate"}

\* C2: a submit whose consent field is absent or empty ends in
\* ConsentMissing at once: it never calls the validator, never loads or
\* saves the workbook, emits CONSENT_MISSING and nothing else, and the step
\* that handles it leaves the file as it was and adds exactly that one line
\* to the audit log.
C2_ConsentMissing ==
    /\ [](\A p \in Requests :
            (pc[p] # "idle" /\ ~(consent[p] # None /\ consent[p] # ""))
            => /\ Done(p)
               /\ outcome[p] = "ConsentMissing"
               /\ hist[p].validator = 0
               /\ hist[p].reads = 0
               /\ hist[p].writes = 0
               /\ hist[p].row = <<>>
               /\ hist[p].events = <<"CONSENT_MISSING">>)
    /\ [][\A p \in Requests :
            (pc[p] = "idle" /\ pc'[p] # "idle"
                /\ ~(consent'[p] # None /\ consent'[p] # ""))
            => /\ file' = file
               /\ Len(auditLog') = Len(auditLog) + 1
               /\ auditLog'[Len(auditLog')].event = "CONSENT_MISSING"]_vars

\* C2 witness: a submit with an empty consent field and a valid email has
\* ended while the store holds a subscriber.
C2_Witness ==
    \E p \in Requests :
        /\ Done(p)
        /\ consent[p] = ""
        /\ email[p] = S_a_b_co
        /\ outcome[p] = "ConsentMissing"
        /\ Len(Subscribers(file)) > 0

\* C3: the row of a request that ended in Stored is in the subscribers
\* sheet, unchanged, in every later state.
C3_StoredRowsKept ==
    \A p \in Requests :
        outcome[p] = "Stored"
        => \E i \in DOMAIN Subscribers(file) : Subscribers(file)[i] = hist[p].row

\* C4: a submit with consent and a valid email that finds the workbook
\* without its subscribers sheet ends in Stored, the sheet holding the
\* header row and then the new row.
C4_MissingSheetHealed ==
    \A p \in Requests :
        (Done(p) /\ hist[p].accepted /\ hist[p].sheetMissing)
        => /\ outcome[p] = "Stored"
           /\ SheetName \in DOMAIN file
           /\ file[SheetName][1] = HeaderRow
           /\ Len(Subscribers(file)) > 0

\* C5: neither a subscriber row nor a line of the audit log holds a
\* client address as received.
C5_NoRawAddress ==
    /\ \A i \in DOMAIN Subscribers(file) : Subscribers(file)[i][4] \notin RawAddresses
    /\ \A i \in DOMAIN auditLog : auditLog[i].ip \notin RawAddresses

\* C6: requests handled one after the other: a submit with consent, whose
\* MX lookup does not fail, of an address that an earlier submit stored
\* (same address up to letter case and surrounding whitespace) ends in
\* Duplicate and saves nothing; no step of a submit of such an address
\* changes the file.
C6_ResubmitIsDuplicate ==
    /\ [](\A p \in Requests :
            ( /\ Done(p)
              /\ consent[p] # None /\ consent[p] # ""
              /\ ~hist[p].dnsError
              /\ \E r \in hist[p].prior : SameAddress(r, form[p]) )
            => /\ outcome[p] = "Duplicate"
               /\ hist[p].writes = 0
               /\ hist[p].row = <<>>)
    /\ [][\A p \in Requests :
            ( /\ pc[p] \notin {"idle", "done"}
              /\ \E r \in hist[p].prior : SameAddress(r, form[p]) )
            => file' = file]_vars

\* C6 witness: the address stored in lower case was submitted again in
\* upper case with surrounding whitespace.
C6_Witness ==
    \E p \in Requests, q \in Requests :
        /\ outcome[q] = "Stored"
        /\ form[q] = S_a_b_co
        /\ form[q] \in hist[p].prior
        /\ form[p] = S_A_B_co_padded
        /\ outcome[p] = "Duplicate"

\* C7: no two rows of the subscribers sheet hold the same email, compared
\* without regard to letter case.
C7_UniqueEmails ==
    \A i \in DOMAIN Subscribers(file), j \in DOMAIN Subscribers(file) :
        i # j => StrLower(Subscribers(file)[i][1]) # StrLower(Subscribers(file)[j][1])

\* A slug made of lowercase letters, digits and hyphens only, not empty.
WellFormedSlug(s) == Len(s) >= 1 /\ \A k \in DOMAIN s : s[k] \in SlugClass

\* C8: a slug that is empty or holds a character outside [a-z0-9-] is
\* answered 404 without any look at the template folder.
C8_MalformedSlugNotFound ==
    (response.status # 0 /\ ~WellFormedSlug(response.slug))
    => (response.status = 404 /\ ~response.existsChecked)

\* C9: an override slug resolves to the template the override table
\* names, which is not the slug-derived name; every other well-formed,
\* non-reserved slug resolves to the slug-derived name.
C9_OverridesDiffer ==
    (response.status # 0 /\ WellFormedSlug(response.slug)
        /\ response.slug \notin RESERVED_ROUTES)
    => IF response.slug \in {S_privacy_policy, S_legal_terms}
       THEN /\ response.template = PAGE_MAP[response.slug]
            /\ response.template # response.slug \o S_dot_html
       ELSE response.template = response.slug \o S_dot_html

\* C10: consent check, then validator, then duplicate check, then append:
\* the validator runs only with consent; the workbook is loaded or saved
\* only after the validator accepted a syntactically valid email; it is
\* saved only after the duplicate check and the load; and a submit with
\* consent that the validator refused ends in InvalidEmail having emitted
\* INVALID_EMAIL only and never touched the workbook.
C10_ShortCircuitOrder ==
    \A p \in Requests :
        /\ hist[p].validator > 0 => (consent[p] # None /\ consent[p] # "")
        /\ (hist[p].reads > 0 \/ hist[p].writes > 0 \/ hist[p].row # <<>>)
           => /\ consent[p] # None /\ consent[p] # ""
              /\ hist[p].validator = 1
              /\ hist[p].accepted
              /\ EMAIL_REGEX(email[p])
        /\ hist[p].writes > 0 => hist[p].reads = 2
        /\ (Done(p) /\ consent[p] # None /\ consent[p] # ""
                /\ (form[p] = S_not_an_email \/ ~hist[p].accepted))
           => /\ outcome[p] = "InvalidEmail"
              /\ hist[p].events = <<"INVALID_EMAIL">>
              /\ hist[p].reads = 0
              /\ hist[p].writes = 0
              /\ hist[p].row = <<>>

\* C10 witness: "not-an-email" was submitted with consent and refused.
C10_Witness ==
    \E p \in Requests :
        /\ Done(p)
        /\ consent[p] = "on"
        /\ form[p] = S_not_an_email
        /\ outcome[p] = "InvalidEmail"
        /\ hist[p].validator = 1

====
